---- MODULE Spec2Model ----
(***************************************************************************)
(* Token counting providers of token-count.nvim.                           *)
(*                                                                         *)
(* Each provider script is a fresh process: it reads sys.argv, may read    *)
(* the process environment, calls a tokenizer library or a remote counting *)
(* service, and ends by printing an integer on standard output or a        *)
(* diagnostic on standard error.  One run of one script is one behaviour.  *)
(*                                                                         *)
(* Strings are modelled as sequences of tokens, so that startswith(), the  *)
(* "in" substring test, lower() and len() are computed, not assumed.       *)
(***************************************************************************)
EXTENDS Integers, Sequences, FiniteSets

VARIABLES
    prog,               \* which script runs, e.g. "tokencost_counter"
    argv,               \* sys.argv[1:], a sequence of strings (each a sequence of tokens)
    pc,                 \* position of the process in the script
    api_key,            \* local api_key of the native adapter: None or Some(value read)
    token_count,        \* main's token_count: None or Some(n)
    result,             \* value count_with_tokencost returns: None or Some(n)
    exc,                \* exception being propagated: None or Some([cls, msg])
    redirected,         \* TRUE while sys.stderr is the StringIO capture buffer
    captured_stderr,    \* lines written to the capture buffer
    stdout,             \* integers printed on standard output, one per line
    stderr,             \* lines written to the real standard error
    exit_status,        \* exit status of the process (meaningful when pc = "done")
    attempts,           \* adapters invoked by main, in order, with their outcome
    calls,              \* library / remote calls issued, in order, with their outcome
    error_msg,          \* main's error_msg = str(e): None or Some(message)
    origin,             \* where the integer held in token_count / printed comes from
    env,                \* answers of the installation: is tokencost importable, has it
                        \* count_message_tokens, in the order the script asked
    first               \* None, or Some(record of the completed earlier run) when the
                        \* script is run a second time with the same command line

vars == <<prog, argv, pc, api_key, token_count, result, exc, redirected,
          captured_stderr, stdout, stderr, exit_status, attempts, calls,
          error_msg, origin, env, first>>

----------------------------------------------------------------------------
(* Bounds of the model *)

MaxTextLen == 4        \* texts have 0..MaxTextLen characters
MaxCount == 1          \* a service or library reports a count in 0..MaxCount
MaxLibLines == 1       \* lines a library call may write to sys.stderr

----------------------------------------------------------------------------
(* Python values *)

None == <<>>
Some(v) == <<v>>
IsNone(o) == o = None

\* text tokens
WARNING == "Warning:"
MARKER == "does not support this method"
OTHER_TEXT == "other text"

\* str.startswith(prefix)
StartsWith(s, prefix) ==
    /\ Len(s) >= Len(prefix)
    /\ SubSeq(s, 1, Len(prefix)) = prefix

\* `tok in text` for a text made of lines of tokens
Contains(lines, tok) ==
    \E i \in 1..Len(lines) : \E j \in 1..Len(lines[i]) : lines[i][j] = tok

LowerChar(c) ==
    CASE c = "T" -> "t"
      [] c = "R" -> "r"
      [] c = "U" -> "u"
      [] c = "E" -> "e"
      [] c = "F" -> "f"
      [] OTHER -> c

\* str.lower()
Lower(s) == [i \in 1..Len(s) |-> LowerChar(s[i])]

TRUE_STR == <<"t", "r", "u", "e">>

\* variant: the credential check dropped
Falsy_Never(key) == FALSE

\* not api_key: None and the empty string are both falsy
Falsy(key) == IsNone(key) \/ key = Some("")

\* variant: the estimate is never less than one token
Estimate_AtLeastOne(text) == IF Len(text) \div 4 = 0 THEN 1 ELSE Len(text) \div 4

\* variant: the division forgotten
Estimate_NoDivision(text) == Len(text)

\* len(text) // 4
Estimate(text) == Len(text) \div 4

----------------------------------------------------------------------------
(* Inputs *)

Texts == {[i \in 1..n |-> "a"] : n \in 0..MaxTextLen}

Models == {<<"claude", "-3-haiku-20240307">>, <<"gemini", "-1.5-pro">>,
           <<"gpt-4">>, <<"Claude", "-3">>}

FlagArgs == {TRUE_STR, <<"T", "R", "U", "E">>, <<"f", "a", "l", "s", "e">>, <<"1">>}

RouterArgvs ==
    {<<m, ea, eg, t>> : m \in Models, ea \in FlagArgs, eg \in FlagArgs, t \in Texts}
    \cup {<<>>, <<<<"gpt-4">>, TRUE_STR, TRUE_STR>>}

\* values os.getenv may return
KeyValues == {None, Some(""), Some("sk-key")}

\* what a library may print on sys.stderr during one call
LibLines == {<<WARNING, MARKER>>, <<WARNING, OTHER_TEXT>>, <<OTHER_TEXT>>, <<OTHER_TEXT, MARKER>>}

RECURSIVE SeqsUpTo(_, _)
SeqsUpTo(S, n) ==
    IF n = 0 THEN {<<>>}
    ELSE LET shorter == SeqsUpTo(S, n - 1)
         IN  shorter \cup {Append(s, x) : s \in shorter, x \in S}

LibOutputs == SeqsUpTo(LibLines, MaxLibLines)

\* str(e) of the exceptions a library may raise
ExcMsgs == {<<WARNING, MARKER>>, <<OTHER_TEXT>>, <<OTHER_TEXT, WARNING>>, <<>>}

\* counts a service or library may report for a text
ServiceCounts(text) == IF text = <<>> THEN {0} ELSE 0..MaxCount

----------------------------------------------------------------------------
(* tokencost_counter.py *)

model == argv[1]
text == argv[4]
\* variant: the flag argument is used as it is, so any non-empty string enables
enable_anthropic_Truthy == argv[2] # <<>>

\* line 102
enable_anthropic == Lower(argv[2]) = TRUE_STR
enable_gemini == Lower(argv[3]) = TRUE_STR

USAGE_LINE == <<"Usage:">>
ERROR_PREFIX == "Error during tokenization:"
TRACEBACK == <<<<"Traceback (most recent call last):">>, <<"ModuleNotFoundError:">>>>

Attempt(a, r, w) == [adapter |-> a, result |-> r, why |-> w]

\* one library or remote call: status is "pending", "returned" or "raised",
\* value is Some(count returned) or None
Call(f, s, v) == [fn |-> f, status |-> s, value |-> v]

SetLast(s, x) == [s EXCEPT ![Len(s)] = x]

\* line 11: import tokencost, at module level and outside any try
import_tokencost ==
    /\ prog = "tokencost_counter"
    /\ pc = "import"
    /\ \E installed \in BOOLEAN :
          /\ env' = Append(env, <<"import tokencost", installed>>)
          /\ IF installed
             THEN /\ pc' = "main"
                  /\ UNCHANGED <<stderr, exit_status>>
             ELSE /\ pc' = "done"
                  /\ stderr' = stderr \o TRACEBACK
                  /\ exit_status' = 1
    /\ UNCHANGED <<first, prog, argv, api_key, token_count, result, exc, redirected,
                   captured_stderr, stdout, attempts, calls, error_msg, origin>>

\* lines 97-107: argument check, token_count = None
main_args ==
    /\ prog = "tokencost_counter"
    /\ pc = "main"
    /\ IF Len(argv) + 1 # 5
       THEN /\ stderr' = Append(stderr, USAGE_LINE)
            /\ exit_status' = 1
            /\ pc' = "done"
       ELSE /\ pc' = "anthropic"
            /\ UNCHANGED <<stderr, exit_status>>
    /\ token_count' = None
    /\ UNCHANGED <<first, env, prog, argv, api_key, result, exc, redirected,
                   captured_stderr, stdout, attempts, calls, error_msg, origin>>

\* variant: the model family is not looked at
AnthropicEligible_AnyModel == enable_anthropic

\* line 110: the condition under which the Anthropic adapter is tried
AnthropicEligible == enable_anthropic /\ StartsWith(model, <<"claude">>)

\* line 114: the condition under which the Gemini adapter is tried
GeminiEligible ==
    IsNone(token_count) /\ enable_gemini /\ StartsWith(model, <<"gemini">>)

\* variant: the message-shaped call is tried for every model
TryMessageTokens_AnyModel(has_count_message_tokens) ==
    has_count_message_tokens

\* line 75: the condition under which the message-shaped call is tried
TryMessageTokens(has_count_message_tokens) ==
    StartsWith(model, <<"claude">>) /\ has_count_message_tokens

\* the part of a native adapter before the remote call (lines 16-23, 36-43):
\* import the client library, read the credential, build the client
NativeBegin(adapter, call, next_pc, wait_pc) ==
    \E importable \in BOOLEAN, key \in KeyValues, client_ok \in BOOLEAN :
       IF ~importable
       THEN /\ attempts' = Append(attempts, Attempt(adapter, "Failure", "missing_library"))
            /\ token_count' = None
            /\ pc' = next_pc
            /\ UNCHANGED <<api_key, calls>>
       ELSE /\ api_key' = key
            /\ IF Falsy(key)
               THEN /\ attempts' = Append(attempts, Attempt(adapter, "Failure", "missing_credential"))
                    /\ token_count' = None
                    /\ pc' = next_pc
                    /\ UNCHANGED calls
               ELSE IF ~client_ok
               THEN /\ attempts' = Append(attempts, Attempt(adapter, "Failure", "service_error"))
                    /\ token_count' = None
                    /\ pc' = next_pc
                    /\ UNCHANGED calls
               ELSE /\ attempts' = Append(attempts, Attempt(adapter, "pending", "none"))
                    /\ calls' = Append(calls, Call(call, "pending", None))
                    /\ pc' = wait_pc
                    /\ UNCHANGED token_count

\* variant: a counting call that raised is issued a second time
NativeEnd_Retry(adapter, call, next_pc) ==
    \/ \E n \in ServiceCounts(text) :
          /\ token_count' = Some(n)
          /\ origin' = adapter
          /\ calls' = SetLast(calls, Call(call, "returned", Some(n)))
          /\ attempts' = SetLast(attempts, Attempt(adapter, "Success", "none"))
    \/ /\ token_count' = None
       /\ calls' = Append(SetLast(calls, Call(call, "raised", None)),
                          Call(call, "raised", None))
       /\ attempts' = Append(SetLast(attempts, Attempt(adapter, "Failure", "service_error")),
                             Attempt(adapter, "Failure", "service_error"))
       /\ UNCHANGED origin

\* the remote counting call returns or raises (lines 24-31, 44-50)
NativeEnd(adapter, call, next_pc) ==
    \/ \E n \in ServiceCounts(text) :
          /\ token_count' = Some(n)
          /\ origin' = adapter
          /\ calls' = SetLast(calls, Call(call, "returned", Some(n)))
          /\ attempts' = SetLast(attempts, Attempt(adapter, "Success", "none"))
    \/ /\ token_count' = None
       /\ calls' = SetLast(calls, Call(call, "raised", None))
       /\ attempts' = SetLast(attempts, Attempt(adapter, "Failure", "service_error"))
       /\ UNCHANGED origin

\* lines 110-111 and count_with_official_anthropic up to the remote call
count_with_official_anthropic ==
    /\ prog = "tokencost_counter"
    /\ pc = "anthropic"
    /\ IF AnthropicEligible
       THEN NativeBegin("anthropic", "anthropic.count_tokens", "gemini", "anthropic_call")
       ELSE /\ pc' = "gemini"
            /\ UNCHANGED <<api_key, token_count, attempts, calls>>
    /\ UNCHANGED <<first, env, prog, argv, result, exc, redirected, captured_stderr,
                   stdout, stderr, exit_status, error_msg, origin>>

\* client.beta.messages.count_tokens returns or raises (lines 24-31)
anthropic_count_tokens ==
    /\ prog = "tokencost_counter"
    /\ pc = "anthropic_call"
    /\ NativeEnd("anthropic", "anthropic.count_tokens", "gemini")
    /\ pc' = "gemini"
    /\ UNCHANGED <<first, env, prog, argv, api_key, result, exc, redirected, captured_stderr,
                   stdout, stderr, exit_status, error_msg>>

\* lines 114-115 and count_with_official_gemini up to the remote call
count_with_official_gemini ==
    /\ prog = "tokencost_counter"
    /\ pc = "gemini"
    /\ IF GeminiEligible
       THEN NativeBegin("gemini", "genai.count_tokens", "tokencost", "gemini_call")
       ELSE /\ pc' = "tokencost"
            /\ UNCHANGED <<api_key, token_count, attempts, calls>>
    /\ UNCHANGED <<first, env, prog, argv, result, exc, redirected, captured_stderr,
                   stdout, stderr, exit_status, error_msg, origin>>

\* client.models.count_tokens returns or raises (lines 44-50)
gemini_count_tokens ==
    /\ prog = "tokencost_counter"
    /\ pc = "gemini_call"
    /\ NativeEnd("gemini", "genai.count_tokens", "tokencost")
    /\ pc' = "tokencost"
    /\ UNCHANGED <<first, env, prog, argv, api_key, result, exc, redirected, captured_stderr,
                   stdout, stderr, exit_status, error_msg>>

\* variant: the test is `if not token_count`, which a count of 0 passes too
NeedsFallback_ZeroIsNone == IsNone(token_count) \/ token_count = Some(0)

\* variant: the generic estimator runs whatever the native adapter returned
NeedsFallback_Always == TRUE

\* line 118: the generic estimator runs only when no native count was obtained
NeedsFallback == IsNone(token_count)

\* lines 118-119 and 61-68: enter count_with_tokencost, redirect sys.stderr
count_with_tokencost ==
    /\ prog = "tokencost_counter"
    /\ pc = "tokencost"
    /\ IF NeedsFallback
       THEN /\ redirected' = TRUE
            /\ captured_stderr' = <<>>
            /\ attempts' = Append(attempts, Attempt("tokencost", "pending", "none"))
            /\ pc' = "string_tokens"
       ELSE /\ pc' = "print"
            /\ UNCHANGED <<redirected, captured_stderr, attempts>>
    /\ UNCHANGED <<first, env, prog, argv, api_key, token_count, result, exc, stdout,
                   stderr, exit_status, calls, error_msg, origin>>

\* lines are written to sys.stderr: the capture buffer while redirected
LibWrites(lines) ==
    IF redirected
    THEN /\ captured_stderr' = captured_stderr \o lines
         /\ UNCHANGED stderr
    ELSE /\ stderr' = stderr \o lines
         /\ UNCHANGED captured_stderr

\* lines 70-75 and 83-85: tokencost.count_string_tokens(text, model)
count_string_tokens ==
    /\ prog = "tokencost_counter"
    /\ pc = "string_tokens"
    /\ \E lines \in LibOutputs : LibWrites(lines)
    /\ \/ \E n \in ServiceCounts(text) :
             /\ calls' = Append(calls, Call("count_string_tokens", "returned", Some(n)))
             /\ result' = Some(n)
             /\ origin' = "count_string_tokens"
             /\ pc' = "finally"
             /\ UNCHANGED <<exc, env>>
       \/ \E msg \in ExcMsgs, has_count_message_tokens \in BOOLEAN :
             /\ calls' = Append(calls, Call("count_string_tokens", "raised", None))
             /\ env' = IF StartsWith(model, <<"claude">>)
                       THEN Append(env, <<"hasattr", has_count_message_tokens>>)
                       ELSE env
             /\ IF TryMessageTokens(has_count_message_tokens)
                THEN /\ pc' = "message_tokens"
                     /\ UNCHANGED exc
                ELSE /\ exc' = Some([cls |-> "Exception", msg |-> msg])
                     /\ pc' = "finally"
             /\ UNCHANGED <<result, origin>>
    /\ UNCHANGED <<first, prog, argv, api_key, token_count, redirected, stdout,
                   exit_status, attempts, error_msg>>

\* lines 76-82: tokencost.count_message_tokens(messages, model), and the
\* rough estimate when it raises too
count_message_tokens ==
    /\ prog = "tokencost_counter"
    /\ pc = "message_tokens"
    /\ \E lines \in LibOutputs : LibWrites(lines)
    /\ \/ \E n \in ServiceCounts(text) :
             /\ calls' = Append(calls, Call("count_message_tokens", "returned", Some(n)))
             /\ result' = Some(n)
             /\ origin' = "count_message_tokens"
       \/ /\ calls' = Append(calls, Call("count_message_tokens", "raised", None))
          /\ result' = Some(Estimate(text))
          /\ origin' = "estimate"
    /\ pc' = "finally"
    /\ UNCHANGED <<first, env, prog, argv, api_key, token_count, exc, redirected, stdout,
                   exit_status, attempts, error_msg>>

\* line 92: the captured output is forwarded unless it is the known warning
ForwardCaptured(captured_output) ==
    /\ captured_output # <<>>
    /\ ~(Contains(captured_output, WARNING) /\ Contains(captured_output, MARKER))

\* variant: sys.stderr is restored on the returning path only, not when the
\* exception propagates
cwt_finally_RestoreOnReturn ==
    /\ prog = "tokencost_counter"
    /\ pc = "finally"
    /\ redirected' = ~IsNone(exc)
    /\ stderr' = IF ForwardCaptured(captured_stderr)
                 THEN stderr \o captured_stderr
                 ELSE stderr
    /\ IF IsNone(exc)
       THEN /\ token_count' = result
            /\ attempts' = SetLast(attempts, Attempt("tokencost", "Success", "none"))
            /\ pc' = "print"
       ELSE /\ attempts' = SetLast(attempts, Attempt("tokencost", "Failure", "service_error"))
            /\ pc' = "except"
            /\ UNCHANGED token_count
    /\ UNCHANGED <<first, env, prog, argv, api_key, result, exc, captured_stderr, stdout,
                   exit_status, calls, error_msg, origin>>

\* lines 86-93: restore sys.stderr, forward the captured output, then return
\* to line 119 or propagate the exception
cwt_finally ==
    /\ prog = "tokencost_counter"
    /\ pc = "finally"
    /\ redirected' = FALSE
    /\ stderr' = IF ForwardCaptured(captured_stderr)
                 THEN stderr \o captured_stderr
                 ELSE stderr
    /\ IF IsNone(exc)
       THEN /\ token_count' = result
            /\ attempts' = SetLast(attempts, Attempt("tokencost", "Success", "none"))
            /\ pc' = "print"
       ELSE /\ attempts' = SetLast(attempts, Attempt("tokencost", "Failure", "service_error"))
            /\ pc' = "except"
            /\ UNCHANGED token_count
    /\ UNCHANGED <<first, env, prog, argv, api_key, result, exc, captured_stderr, stdout,
                   exit_status, calls, error_msg, origin>>

\* variant: the printed value depends on state kept from an earlier request
main_print_Stateful ==
    /\ prog = "tokencost_counter"
    /\ pc = "print"
    /\ stdout' = Append(stdout, token_count[1] + (IF first = None THEN 0 ELSE 1))
    /\ exit_status' = 0
    /\ pc' = "done"
    /\ UNCHANGED <<first, env, prog, argv, api_key, token_count, result, exc, redirected,
                   captured_stderr, stderr, attempts, calls, error_msg, origin>>

\* line 121: print(token_count), then the process ends with status 0
main_print ==
    /\ prog = "tokencost_counter"
    /\ pc = "print"
    /\ stdout' = Append(stdout, token_count[1])
    /\ exit_status' = 0
    /\ pc' = "done"
    /\ UNCHANGED <<first, env, prog, argv, api_key, token_count, result, exc, redirected,
                   captured_stderr, stderr, attempts, calls, error_msg, origin>>

\* variant: the marker is looked for anywhere in the message
IsWarningMsg_Anywhere(msg) == \E j \in 1..Len(msg) : msg[j] = WARNING

\* line 126: the router's test for a warning-only failure
IsWarningMsg(msg) == StartsWith(msg, <<WARNING>>)

\* variant: the return of line 132 is missing, so sys.exit(1) always runs
main_except_NoReturn ==
    /\ prog = "tokencost_counter"
    /\ pc = "except"
    /\ error_msg' = Some(exc[1].msg)
    /\ LET str_e == exc[1].msg
       IN  IF ~StartsWith(str_e, <<WARNING>>)
           THEN /\ LibWrites(<<<<ERROR_PREFIX>> \o str_e>>)
                /\ UNCHANGED <<stdout, origin>>
           ELSE /\ stdout' = Append(stdout, Len(text) \div 4)
                /\ origin' = "estimate_warning"
                /\ UNCHANGED <<stderr, captured_stderr>>
    /\ exit_status' = 1
    /\ exc' = None
    /\ pc' = "done"
    /\ UNCHANGED <<first, env, prog, argv, api_key, token_count, result, redirected,
                   attempts, calls>>

\* lines 123-133: the router's exception handler
main_except ==
    /\ prog = "tokencost_counter"
    /\ pc = "except"
    /\ error_msg' = Some(exc[1].msg)
    /\ LET str_e == exc[1].msg
       IN  IF ~IsWarningMsg(str_e)
           THEN /\ LibWrites(<<<<ERROR_PREFIX>> \o str_e>>)
                /\ exit_status' = 1
                /\ UNCHANGED <<stdout, origin>>
           ELSE /\ stdout' = Append(stdout, Estimate(text))
                /\ origin' = "estimate_warning"
                /\ exit_status' = 0
                /\ UNCHANGED <<stderr, captured_stderr>>
    /\ exc' = None
    /\ pc' = "done"
    /\ UNCHANGED <<first, env, prog, argv, api_key, token_count, result, redirected,
                   attempts, calls>>

----------------------------------------------------------------------------
(* tiktoken_counter.py *)

\* the encodings the script names as available (line 16)
ENCODINGS == {"o200k_base", "cl100k_base", "p50k_base", "p50k_edit", "r50k_base", "gpt2"}

EncodingArgs == {<<"cl100k_base">>, <<"gpt2">>, <<"o200k_base">>,
                 <<"not_a_real_encoding">>, <<"CL100K_BASE">>, <<>>}

\* a special token of the vocabulary, which encode() refuses in plain text
SPECIAL_TOKEN == "<|endoftext|>"

TiktokenTexts == Texts \cup {<<SPECIAL_TOKEN>>, <<"a", SPECIAL_TOKEN>>}

TiktokenArgvs ==
    {<<e, t>> : e \in EncodingArgs, t \in TiktokenTexts} \cup {<<>>, <<<<"gpt2">>>>}

encoding_name == argv[1]
tik_text == argv[2]

AVAILABLE_LINE == <<"Available encodings:">> \o
    <<"o200k_base", "cl100k_base", "p50k_base", "p50k_edit", "r50k_base", "gpt2">>
INVALID_PREFIX == "Error: Invalid encoding"

\* the registry knows the name: a one-token string naming a listed encoding
KnownEncoding(name) == Len(name) = 1 /\ name[1] \in ENCODINGS

\* line 9: import tiktoken, at module level and outside any try
import_tiktoken ==
    /\ prog = "tiktoken_counter"
    /\ pc = "import"
    /\ \E installed \in BOOLEAN :
          IF installed
          THEN /\ pc' = "tik_main"
               /\ UNCHANGED <<stderr, exit_status>>
          ELSE /\ pc' = "done"
               /\ stderr' = stderr \o TRACEBACK
               /\ exit_status' = 1
    /\ UNCHANGED <<first, env, prog, argv, api_key, token_count, result, exc, redirected,
                   captured_stderr, stdout, attempts, calls, error_msg, origin>>

\* lines 13-22: argument check
tiktoken_main_args ==
    /\ prog = "tiktoken_counter"
    /\ pc = "tik_main"
    /\ IF Len(argv) + 1 # 3
       THEN /\ stderr' = stderr \o <<USAGE_LINE, AVAILABLE_LINE>>
            /\ exit_status' = 1
            /\ pc' = "done"
       ELSE /\ pc' = "tik_get_encoding"
            /\ UNCHANGED <<stderr, exit_status>>
    /\ UNCHANGED <<first, env, prog, argv, api_key, token_count, result, exc, redirected,
                   captured_stderr, stdout, attempts, calls, error_msg, origin>>

\* line 25: tiktoken.get_encoding(encoding_name).  An unknown name raises
\* ValueError; loading a known encoding may fail too (its file cannot be read).
tiktoken_get_encoding ==
    /\ prog = "tiktoken_counter"
    /\ pc = "tik_get_encoding"
    /\ IF ~KnownEncoding(encoding_name)
       THEN /\ exc' = Some([cls |-> "ValueError", msg |-> <<"Unknown encoding">>])
            /\ calls' = Append(calls, Call("get_encoding", "raised", None))
            /\ pc' = "tik_except"
       ELSE \/ /\ pc' = "tik_encode"
               /\ calls' = Append(calls, Call("get_encoding", "returned", None))
               /\ UNCHANGED exc
            \/ /\ exc' = Some([cls |-> "Exception", msg |-> <<"cannot load encoding">>])
               /\ calls' = Append(calls, Call("get_encoding", "raised", None))
               /\ pc' = "tik_except"
    /\ UNCHANGED <<first, env, prog, argv, api_key, token_count, result, redirected,
                   captured_stderr, stdout, stderr, exit_status, attempts,
                   error_msg, origin>>

HasSpecialToken(t) == \E i \in 1..Len(t) : t[i] = SPECIAL_TOKEN

\* lines 26-27: encoding.encode(text) and len(tokens).  encode raises
\* ValueError on text holding a disallowed special token; it may fail for
\* another reason on any text.
tiktoken_encode ==
    /\ prog = "tiktoken_counter"
    /\ pc = "tik_encode"
    /\ \/ \E n \in ServiceCounts(tik_text) :
             /\ ~HasSpecialToken(tik_text)
             /\ calls' = Append(calls, Call("encode", "returned", Some(n)))
             /\ token_count' = Some(n)
             /\ origin' = "encode"
             /\ pc' = "tik_print"
             /\ UNCHANGED exc
       \/ /\ HasSpecialToken(tik_text)
          /\ calls' = Append(calls, Call("encode", "raised", None))
          /\ exc' = Some([cls |-> "ValueError", msg |-> <<"disallowed special token">>])
          /\ pc' = "tik_except"
          /\ UNCHANGED <<token_count, origin>>
       \/ /\ tik_text # <<>>
          /\ calls' = Append(calls, Call("encode", "raised", None))
          /\ exc' = Some([cls |-> "Exception", msg |-> <<"cannot encode text">>])
          /\ pc' = "tik_except"
          /\ UNCHANGED <<token_count, origin>>
    /\ UNCHANGED <<first, env, prog, argv, api_key, result, redirected, captured_stderr,
                   stdout, stderr, exit_status, attempts, error_msg>>

\* line 29: print(token_count)
tiktoken_print ==
    /\ prog = "tiktoken_counter"
    /\ pc = "tik_print"
    /\ stdout' = Append(stdout, token_count[1])
    /\ exit_status' = 0
    /\ pc' = "done"
    /\ UNCHANGED <<first, env, prog, argv, api_key, token_count, result, exc, redirected,
                   captured_stderr, stderr, attempts, calls, error_msg, origin>>

\* lines 31-36: except ValueError reports an invalid encoding, except
\* Exception a tokenization error
tiktoken_except ==
    /\ prog = "tiktoken_counter"
    /\ pc = "tik_except"
    /\ stderr' = IF exc[1].cls = "ValueError"
                 THEN Append(stderr, <<INVALID_PREFIX>> \o encoding_name \o exc[1].msg)
                 ELSE Append(stderr, <<ERROR_PREFIX>> \o exc[1].msg)
    /\ exit_status' = 1
    /\ exc' = None
    /\ pc' = "done"
    /\ UNCHANGED <<first, env, prog, argv, api_key, token_count, result, redirected,
                   captured_stderr, stdout, attempts, calls, error_msg, origin>>

----------------------------------------------------------------------------
(* anthropic_counter.py and gemini_counter.py: the standalone native adapters *)

StandaloneArgvs ==
    {<<m, t>> : m \in Models, t \in Texts} \cup {<<>>, <<<<"gpt-4">>>>}

sa_text == argv[2]

AVAILABLE_MODELS_LINE == <<"Available models:">>
KEY_NOT_SET == "environment variable not set"
CLIENT_ERROR_PREFIX == "Error initializing client:"
COUNTING_ERROR_PREFIX == "Error during token counting:"

\* the import of the client library at module level, outside any try
StandaloneImport(script) ==
    /\ prog = script
    /\ pc = "import"
    /\ \E installed \in BOOLEAN :
          IF installed
          THEN /\ pc' = "sa_main"
               /\ UNCHANGED <<stderr, exit_status>>
          ELSE /\ pc' = "done"
               /\ stderr' = stderr \o TRACEBACK
               /\ exit_status' = 1
    /\ UNCHANGED <<first, env, prog, argv, api_key, token_count, result, exc, redirected,
                   captured_stderr, stdout, attempts, calls, error_msg, origin>>

\* variant: the credential is not checked before the client is built
StandaloneMain_NoKeyCheck(script, key_name) ==
    /\ prog = script
    /\ pc = "sa_main"
    /\ IF Len(argv) + 1 # 3
       THEN /\ stderr' = stderr \o <<USAGE_LINE, AVAILABLE_MODELS_LINE>>
            /\ exit_status' = 1
            /\ pc' = "done"
            /\ UNCHANGED <<api_key, attempts>>
       ELSE \E key \in KeyValues :
               /\ api_key' = key
               /\ attempts' = Append(attempts, Attempt(script, "pending", "none"))
               /\ pc' = "sa_client"
               /\ UNCHANGED <<stderr, exit_status>>
    /\ UNCHANGED <<first, env, prog, argv, token_count, result, exc, redirected,
                   captured_stderr, stdout, calls, error_msg, origin>>

\* the argument check, then the credential check: the script ends here when
\* the key is unset or empty
StandaloneMain(script, key_name) ==
    /\ prog = script
    /\ pc = "sa_main"
    /\ IF Len(argv) + 1 # 3
       THEN /\ stderr' = stderr \o <<USAGE_LINE, AVAILABLE_MODELS_LINE>>
            /\ exit_status' = 1
            /\ pc' = "done"
            /\ UNCHANGED <<api_key, attempts>>
       ELSE \E key \in KeyValues :
               /\ api_key' = key
               /\ IF Falsy(key)
                  THEN /\ stderr' = Append(stderr, <<"Error:", key_name, KEY_NOT_SET>>)
                       /\ exit_status' = 1
                       /\ attempts' = Append(attempts,
                              Attempt(script, "Failure", "missing_credential"))
                       /\ pc' = "done"
                  ELSE /\ attempts' = Append(attempts, Attempt(script, "pending", "none"))
                       /\ pc' = "sa_client"
                       /\ UNCHANGED <<stderr, exit_status>>
    /\ UNCHANGED <<first, env, prog, argv, token_count, result, exc, redirected,
                   captured_stderr, stdout, calls, error_msg, origin>>

\* the client is built; when that raises the script ends with a diagnostic,
\* otherwise the counting call is issued
StandaloneClient(script, call) ==
    /\ prog = script
    /\ pc = "sa_client"
    /\ \E client_ok \in BOOLEAN :
          IF client_ok
          THEN /\ calls' = Append(calls, Call(call, "pending", None))
               /\ pc' = "sa_call"
               /\ UNCHANGED <<stderr, exit_status, attempts>>
          ELSE /\ stderr' = Append(stderr, <<CLIENT_ERROR_PREFIX, OTHER_TEXT>>)
               /\ exit_status' = 1
               /\ attempts' = SetLast(attempts, Attempt(script, "Failure", "service_error"))
               /\ pc' = "done"
               /\ UNCHANGED calls
    /\ UNCHANGED <<first, env, prog, argv, api_key, token_count, result, exc, redirected,
                   captured_stderr, stdout, error_msg, origin>>

\* the counting call returns and the count is printed, or it raises and the
\* script ends with a diagnostic
StandaloneCountTokens(script, call) ==
    /\ prog = script
    /\ pc = "sa_call"
    /\ \/ \E n \in ServiceCounts(sa_text) :
             /\ calls' = SetLast(calls, Call(call, "returned", Some(n)))
             /\ token_count' = Some(n)
             /\ origin' = script
             /\ stdout' = Append(stdout, n)
             /\ exit_status' = 0
             /\ attempts' = SetLast(attempts, Attempt(script, "Success", "none"))
             /\ UNCHANGED stderr
       \/ /\ calls' = SetLast(calls, Call(call, "raised", None))
          /\ stderr' = Append(stderr, <<COUNTING_ERROR_PREFIX, OTHER_TEXT>>)
          /\ exit_status' = 1
          /\ attempts' = SetLast(attempts, Attempt(script, "Failure", "service_error"))
          /\ UNCHANGED <<token_count, origin, stdout>>
    /\ pc' = "done"
    /\ UNCHANGED <<first, env, prog, argv, api_key, result, exc, redirected,
                   captured_stderr, error_msg>>

\* anthropic_counter.py line 9
anthropic_counter_import == StandaloneImport("anthropic_counter")

\* anthropic_counter.py lines 13-25
anthropic_counter_main == StandaloneMain("anthropic_counter", "ANTHROPIC_API_KEY")

\* anthropic_counter.py lines 27-32
anthropic_counter_client ==
    StandaloneClient("anthropic_counter", "anthropic.count_tokens")

\* anthropic_counter.py lines 34-55
anthropic_counter_count_tokens ==
    StandaloneCountTokens("anthropic_counter", "anthropic.count_tokens")

\* gemini_counter.py line 10
gemini_counter_import == StandaloneImport("gemini_counter")

\* gemini_counter.py lines 14-29
gemini_counter_main == StandaloneMain("gemini_counter", "GOOGLE_API_KEY")

\* gemini_counter.py lines 31-36
gemini_counter_client == StandaloneClient("gemini_counter", "genai.count_tokens")

\* gemini_counter.py lines 38-53
gemini_counter_count_tokens ==
    StandaloneCountTokens("gemini_counter", "genai.count_tokens")

----------------------------------------------------------------------------
(* Specification *)

Init ==
    /\ prog \in {"tokencost_counter", "tiktoken_counter", "anthropic_counter",
                 "gemini_counter"}
    /\ argv \in CASE prog = "tokencost_counter" -> RouterArgvs
                 [] prog = "tiktoken_counter" -> TiktokenArgvs
                 [] OTHER -> StandaloneArgvs
    /\ pc = "import"
    /\ api_key = None
    /\ token_count = None
    /\ result = None
    /\ exc = None
    /\ redirected = FALSE
    /\ captured_stderr = <<>>
    /\ stdout = <<>>
    /\ stderr = <<>>
    /\ exit_status = 0
    /\ attempts = <<>>
    /\ calls = <<>>
    /\ error_msg = None
    /\ origin = "none"
    /\ env = <<>>
    /\ first = None

Next ==
    \/ import_tokencost
    \/ main_args
    \/ count_with_official_anthropic
    \/ anthropic_count_tokens
    \/ count_with_official_gemini
    \/ gemini_count_tokens
    \/ count_with_tokencost
    \/ count_string_tokens
    \/ count_message_tokens
    \/ cwt_finally
    \/ main_print
    \/ main_except
    \/ import_tiktoken
    \/ tiktoken_main_args
    \/ tiktoken_get_encoding
    \/ tiktoken_encode
    \/ tiktoken_print
    \/ tiktoken_except
    \/ anthropic_counter_import
    \/ anthropic_counter_main
    \/ anthropic_counter_client
    \/ anthropic_counter_count_tokens
    \/ gemini_counter_import
    \/ gemini_counter_main
    \/ gemini_counter_client
    \/ gemini_counter_count_tokens

Spec == Init /\ [][Next]_vars

----------------------------------------------------------------------------
(* Two requests with the same command line, one after the other *)

\* command lines of the router for the two-request specification: both
\* native adapters enabled or both disabled, the empty and the longest text
TwiceFlagArgs == {TRUE_STR, <<"f", "a", "l", "s", "e">>}

TwiceArgvs ==
    {a \in RouterArgvs :
        Len(a) = 4 => /\ a[1] # <<"Claude", "-3">>
                      /\ a[2] \in TwiceFlagArgs /\ a[3] = a[2]
                      /\ Len(a[4]) \in {0, MaxTextLen}}

\* what a run got from outside the script: the installation's answers, the
\* credential read, the adapters' and calls' outcomes, the library's output
\* and the message of the exception that reached main
Responses ==
    [env |-> env, api_key |-> api_key, attempts |-> attempts, calls |-> calls,
     captured |-> captured_stderr, error_msg |-> error_msg]

\* what a run produced: standard output, exit status, standard error
Outcome == [stdout |-> stdout, exit_status |-> exit_status, stderr |-> stderr]

IsPrefix(s, t) == Len(s) <= Len(t) /\ \A i \in 1..Len(s) : s[i] = t[i]

\* the entries of log so far are those of the earlier log, the latest one
\* possibly still pending
LogFollows(log, earlier, same(_, _)) ==
    /\ Len(log) <= Len(earlier)
    /\ \A i \in 1..Len(log) :
          \/ log[i] = earlier[i]
          \/ i = Len(log) /\ same(log[i], earlier[i])

PendingAttempt(a, b) == a.result = "pending" /\ a.adapter = b.adapter
PendingCall(a, b) == a.status = "pending" /\ a.fn = b.fn

\* the second run has been given, so far, what the first run was given
SameResponses ==
    \/ first = None
    \/ LET f == first[1].responses
       IN  /\ IsPrefix(env, f.env)
           /\ api_key \in {None, f.api_key}
           /\ LogFollows(attempts, f.attempts, PendingAttempt)
           /\ LogFollows(calls, f.calls, PendingCall)
           /\ IsPrefix(captured_stderr, f.captured)
           /\ exc # None => f.error_msg = Some(exc[1].msg)
           /\ error_msg \in {None, f.error_msg}

\* lines 136-137: the script is started again with the same command line; the
\* new process has nothing of the earlier one
restart ==
    /\ prog = "tokencost_counter"
    /\ pc = "done"
    /\ first = None
    /\ first' = Some([responses |-> Responses, outcome |-> Outcome])
    /\ pc' = "import"
    /\ api_key' = None
    /\ token_count' = None
    /\ result' = None
    /\ exc' = None
    /\ redirected' = FALSE
    /\ captured_stderr' = <<>>
    /\ stdout' = <<>>
    /\ stderr' = <<>>
    /\ exit_status' = 0
    /\ attempts' = <<>>
    /\ calls' = <<>>
    /\ error_msg' = None
    /\ origin' = "none"
    /\ env' = <<>>
    /\ UNCHANGED <<prog, argv>>

\* a step of the router
RouterNext ==
    \/ import_tokencost
    \/ main_args
    \/ count_with_official_anthropic
    \/ anthropic_count_tokens
    \/ count_with_official_gemini
    \/ gemini_count_tokens
    \/ count_with_tokencost
    \/ count_string_tokens
    \/ count_message_tokens
    \/ cwt_finally
    \/ main_print
    \/ main_except

InitTwice == Init /\ prog = "tokencost_counter" /\ argv \in TwiceArgvs

\* the second run is explored only as far as it is given the first run's
\* responses
NextTwice ==
    \/ RouterNext /\ SameResponses'
    \/ restart

SpecTwice == InitTwice /\ [][NextTwice]_vars

----------------------------------------------------------------------------
(* Shared vocabulary of the properties *)

Router == prog = "tokencost_counter"
Done == pc = "done"
ArgsOk == Len(argv) = 4
ClaudeModel == StartsWith(model, <<"claude">>)
GeminiModel == StartsWith(model, <<"gemini">>)

\* the call fn was issued and raised / returned
Raised(fn) == \E i \in 1..Len(calls) : calls[i].fn = fn /\ calls[i].status = "raised"
Returned(fn) == \E i \in 1..Len(calls) : calls[i].fn = fn /\ calls[i].status = "returned"
Issued(fn) == \E i \in 1..Len(calls) : calls[i].fn = fn

Attempted(a) == \E i \in 1..Len(attempts) : attempts[i].adapter = a

\* lines the scripts themselves write on standard error
DiagnosticLine(line) ==
    /\ Len(line) > 0
    /\ line[1] \in {ERROR_PREFIX, INVALID_PREFIX, "Usage:", "Available encodings:",
                    "Traceback (most recent call last):", "ModuleNotFoundError:"}

HasDiagnostic == \E i \in 1..Len(stderr) : DiagnosticLine(stderr[i])

----------------------------------------------------------------------------
(* C1 *)

----------------------------------------------------------------------------
(* C2 *)

InMainAfter(positions) == Router /\ pc \in positions

AfterAnthropic == {"gemini", "gemini_call", "tokencost", "string_tokens",
                   "message_tokens", "finally", "print", "except"}
AfterGemini == {"tokencost", "string_tokens", "message_tokens", "finally",
                "print", "except"}

\* C2: the router tries the native adapter of the model's family, only when
\* that family is enabled and the model name has its prefix, and then the
\* generic estimator; it never invokes the native adapter of another family
\* and invokes no adapter after one that returned a Success.
C2_AdapterOrder ==
    Router =>
        /\ \A i \in 1..Len(attempts) :
              /\ attempts[i].adapter = "anthropic" =>
                    Lower(argv[2]) = TRUE_STR /\ ClaudeModel
              /\ attempts[i].adapter = "gemini" =>
                    Lower(argv[3]) = TRUE_STR /\ GeminiModel
              /\ attempts[i].adapter = "tokencost" => i = Len(attempts)
              /\ i < Len(attempts) => attempts[i].result = "Failure"
        /\ Len(attempts) <= 2
        /\ (InMainAfter(AfterAnthropic) /\ Lower(argv[2]) = TRUE_STR /\ ClaudeModel) =>
              (attempts # <<>> /\ attempts[1].adapter = "anthropic")
        /\ (InMainAfter(AfterGemini) /\ Lower(argv[3]) = TRUE_STR /\ GeminiModel) =>
              (attempts # <<>> /\ attempts[1].adapter = "gemini")
        /\ InMainAfter({"print", "except"}) =>
              /\ attempts # <<>>
              /\ \/ attempts[Len(attempts)].adapter = "tokencost"
                 \/ attempts[Len(attempts)].result = "Success"

\* the native adapter failed and the generic estimator then answered
C2_Witness ==
    /\ Router /\ Done /\ Len(attempts) = 2
    /\ attempts[1].adapter = "gemini" /\ attempts[1].result = "Failure"
    /\ attempts[2].adapter = "tokencost" /\ attempts[2].result = "Success"

----------------------------------------------------------------------------
(* C3 *)

NativeCalls == {"anthropic.count_tokens", "genai.count_tokens"}
GenericCalls == {"count_string_tokens", "count_message_tokens"}

\* a native adapter ran, found its client library, and read no credential
CredentialAbsent ==
    /\ Router
    /\ \E i \in 1..Len(attempts) :
          /\ attempts[i].adapter \in {"anthropic", "gemini"}
          /\ attempts[i].why # "missing_library"
    /\ api_key \in {None, Some("")}

\* C3: when the credential of the model's family is absent the native adapter
\* issues no remote call, the router goes on to the generic estimator, what
\* it prints is what the generic estimator produced, and a failure is the
\* estimator's tokenization error, never a credential error.
C3_AbsentCredentialFallsThrough ==
    CredentialAbsent =>
        /\ \A i \in 1..Len(calls) : calls[i].fn \notin NativeCalls
        /\ pc \in {"print", "except", "done"} => Attempted("tokencost")
        /\ (Done /\ exit_status = 0) =>
              /\ origin \in {"count_string_tokens", "count_message_tokens",
                             "estimate", "estimate_warning"}
              /\ \A i \in 1..Len(calls) :
                    calls[i].status = "returned" => stdout = calls[i].value
        /\ (Done /\ exit_status # 0) =>
              /\ Raised("count_string_tokens")
              /\ stderr[Len(stderr)][1] = ERROR_PREFIX

\* a Claude model, Anthropic enabled, no key: the estimator's count is printed
C3_Witness ==
    /\ CredentialAbsent /\ Done /\ ClaudeModel
    /\ api_key = None
    /\ attempts[1] = Attempt("anthropic", "Failure", "missing_credential")
    /\ origin = "count_string_tokens" /\ exit_status = 0 /\ Len(stdout) = 1

----------------------------------------------------------------------------
(* C4 *)

\* C4: when the generic estimator raises, for a model that is not
\* Claude-family, an error whose message does not start with the warning
\* marker, the run ends with the router's diagnostic on standard error, a
\* non-zero status and nothing on standard output.
C4_GenericFailureIsTerminal ==
    (/\ Router /\ Done /\ ArgsOk
     /\ ~ClaudeModel
     /\ Raised("count_string_tokens")
     /\ error_msg # None
     /\ ~StartsWith(error_msg[1], <<WARNING>>)) =>
        /\ stdout = <<>>
        /\ exit_status # 0
        /\ stderr # <<>>
        /\ stderr[Len(stderr)] = <<ERROR_PREFIX>> \o error_msg[1]

\* a message that holds the warning marker, but not at its start
C4_Witness ==
    /\ Router /\ Done /\ ArgsOk /\ GeminiModel
    /\ Raised("count_string_tokens")
    /\ error_msg = Some(<<OTHER_TEXT, WARNING>>)
    /\ exit_status = 1

----------------------------------------------------------------------------
(* C5 *)

\* C5: when both the text-level and the message-shaped call of the generic
\* estimator raise for a Claude-family model, the router writes none of its
\* diagnostics: standard output holds only floor(len(text) / 4) and the
\* status is 0.
C5_ClaudeDowngradesToEstimate ==
    (/\ Router /\ Done /\ ArgsOk
     /\ ClaudeModel
     /\ Raised("count_string_tokens")
     /\ Raised("count_message_tokens")) =>
        /\ Len(stdout) = 1
        /\ 4 * stdout[1] <= Len(text)
        /\ Len(text) < 4 * stdout[1] + 4
        /\ exit_status = 0
        /\ ~HasDiagnostic

\* both calls raised on a text long enough for a non-zero estimate
C5_Witness ==
    /\ Router /\ Done /\ ArgsOk /\ ClaudeModel
    /\ Raised("count_string_tokens") /\ Raised("count_message_tokens")
    /\ Len(text) >= 4 /\ stdout = <<1>>

----------------------------------------------------------------------------
(* C6 *)

EstimateOrigins == {"estimate", "estimate_warning"}

\* C6: the character estimate is floor(len(text) / 4); the router prints it
\* only when every call it made to a counting backend raised (all eligible
\* backends tried) or when the failure message is a warning; when a call
\* returned a count, that count is what is printed.
C6_EstimateIsLastResort ==
    /\ \A t \in Texts : 4 * Estimate(t) <= Len(t) /\ Len(t) < 4 * Estimate(t) + 4
    /\ (Router /\ Done /\ origin \in EstimateOrigins) =>
          /\ stdout = <<Len(text) \div 4>>
          /\ \A i \in 1..Len(calls) : calls[i].status = "raised"
          /\ origin = "estimate" =>
                /\ Raised("count_string_tokens") /\ Raised("count_message_tokens")
                /\ \A i \in 1..Len(attempts) :
                      attempts[i].adapter # "tokencost" => attempts[i].result = "Failure"
          /\ origin = "estimate_warning" =>
                /\ error_msg # None
                /\ StartsWith(error_msg[1], <<WARNING>>)
    /\ (Router /\ Done) =>
          \A i \in 1..Len(calls) :
             calls[i].status = "returned" =>
                /\ stdout = calls[i].value
                /\ origin \notin EstimateOrigins
                /\ exit_status = 0

\* the native call raised and the router printed the estimate for a warning
C6_Witness ==
    /\ Router /\ Done /\ origin = "estimate_warning"
    /\ Raised("anthropic.count_tokens")
    /\ Len(text) >= 4

----------------------------------------------------------------------------
(* C7 *)

Tiktoken == prog = "tiktoken_counter"

InvalidEncodingReported ==
    \E i \in 1..Len(stderr) : stderr[i][1] = INVALID_PREFIX

\* C7: the local-tokenizer script ends an unknown encoding name with a
\* non-zero status and the invalid-encoding message, and gives that message
\* only for an unknown name: a failure under a known encoding is reported as
\* a tokenization failure.  (What follows the prefix in the message is the
\* library's own exception text, printed as it comes.)
C7_InvalidEncodingOnlyForUnknownName ==
    (Tiktoken /\ Done /\ calls # <<>>) =>
        /\ ~KnownEncoding(encoding_name) =>
              (exit_status # 0 /\ stdout = <<>> /\ InvalidEncodingReported)
        /\ InvalidEncodingReported => ~KnownEncoding(encoding_name)
        /\ Raised("encode") =>
              (exit_status # 0 /\ stdout = <<>> /\ stderr[Len(stderr)][1] = ERROR_PREFIX)

----------------------------------------------------------------------------
(* C8 *)

\* C8: for a Claude-family model handled by the generic estimator, a run
\* that ends with an integer and status 0 has an empty standard error,
\* whatever warning the library wrote while it ran.
C8_WarningsNeverOnErrorChannel ==
    (/\ Router /\ Done /\ ArgsOk
     /\ ClaudeModel
     /\ Attempted("tokencost")
     /\ Contains(captured_stderr, WARNING)
     /\ exit_status = 0 /\ Len(stdout) = 1) =>
        stderr = <<>>

----------------------------------------------------------------------------
(* C9 *)

\* C9: every failure of an adapter ends the router through its own success
\* or failure path, and a failed run shows exactly one line on standard
\* error, the router's diagnostic, never a stack trace or several lines.
C9_SingleDiagnosticLine ==
    (Router /\ Done /\ exit_status # 0) =>
        /\ Len(stderr) = 1
        /\ stderr[1][1] \in {ERROR_PREFIX, "Usage:"}

----------------------------------------------------------------------------
(* C10 *)

\* C10: with an empty text every successful run of the router prints 0 with
\* status 0, whether the count comes from a native adapter, from the generic
\* estimator or from the character estimate, and a run that fails does so for
\* a reason that does not involve the text: the module tokencost is missing,
\* or the generic estimator raised an error that is not a warning.
C10_EmptyTextCountsZero ==
    (Router /\ Done /\ ArgsOk /\ text = <<>>) =>
        /\ exit_status = 0 => stdout = <<0>>
        /\ origin \in EstimateOrigins => (stdout = <<0>> /\ exit_status = 0)
        /\ exit_status # 0 =>
              \/ stderr = TRACEBACK
              \/ /\ Raised("count_string_tokens")
                 /\ error_msg # None
                 /\ ~StartsWith(error_msg[1], <<WARNING>>)

\* the character estimate of the empty text was printed
C10_Witness ==
    /\ Router /\ Done /\ ArgsOk /\ text = <<>>
    /\ origin = "estimate"
    /\ stdout = <<0>>

----------------------------------------------------------------------------
(* C12 *)

Standalone == prog \in {"anthropic_counter", "gemini_counter"}

\* the script got past its credential check: the key was read and is set
KeyPresent == api_key # None /\ api_key # Some("")

\* the script read the credential: it is past the argument check
KeyRead == Standalone /\ attempts # <<>>

\* C12 as stated: a standalone native adapter with an absent credential fails
\* without a remote call, and with the credential present it issues exactly
\* one counting call and then prints the reported integer with status 0 or a
\* diagnostic with a non-zero status.
C12_ExactlyOneCall ==
    (KeyRead /\ Done) =>
        /\ ~KeyPresent =>
              (calls = <<>> /\ stdout = <<>> /\ exit_status # 0 /\ stderr # <<>>)
        /\ KeyPresent =>
              /\ Len(calls) = 1
              /\ \/ (exit_status = 0 /\ stdout = calls[1].value /\ stderr = <<>>)
                 \/ (exit_status # 0 /\ stdout = <<>> /\ Len(stderr) = 1)

\* C12 amended: with the credential absent the adapter fails without a remote
\* call; with the credential present it issues at most one counting call:
\* none when building the client raises, which ends the script with a
\* diagnostic, and exactly one otherwise, after which it prints only the
\* reported integer with status 0 or, when the call raises, a diagnostic with
\* a non-zero status and no integer.
C12_CredentialBeforeCall ==
    /\ (Standalone /\ calls # <<>>) => (KeyPresent /\ Len(calls) = 1)
    /\ (KeyRead /\ Done) =>
          /\ ~KeyPresent =>
                (calls = <<>> /\ stdout = <<>> /\ exit_status # 0 /\ stderr # <<>>)
          /\ (KeyPresent /\ calls = <<>>) =>
                /\ exit_status # 0 /\ stdout = <<>>
                /\ stderr = <<<<CLIENT_ERROR_PREFIX, OTHER_TEXT>>>>
          /\ (KeyPresent /\ calls # <<>>) =>
                \/ /\ calls[1].status = "returned"
                   /\ exit_status = 0 /\ stdout = calls[1].value /\ stderr = <<>>
                \/ /\ calls[1].status = "raised"
                   /\ exit_status # 0 /\ stdout = <<>>
                   /\ stderr = <<<<COUNTING_ERROR_PREFIX, OTHER_TEXT>>>>

\* the key is set, the call was issued and the service's count was printed
C12_Witness ==
    /\ prog = "gemini_counter" /\ Done /\ KeyPresent
    /\ Len(calls) = 1 /\ calls[1].status = "returned"
    /\ stdout = <<1>> /\ exit_status = 0

----------------------------------------------------------------------------
(* C13 *)

NativeAdapters == {"anthropic", "gemini"}

\* the positions of main at which only native adapters have run so far
NativePhase == {"anthropic", "anthropic_call", "gemini", "gemini_call", "tokencost"}

\* C13: a native adapter of the router that fails (missing credential or
\* service error) writes nothing to standard output or standard error and the
\* router goes on to the next adapter; within one request no adapter is
\* invoked twice and at most one attempt, the latest, is in progress.
C13_NativeFailureIsSilent ==
    Router =>
        /\ pc \in NativePhase => (stdout = <<>> /\ stderr = <<>>)
        /\ \A i \in 1..Len(attempts) :
              (attempts[i].adapter \in NativeAdapters /\ attempts[i].result = "Failure")
                  => \/ i < Len(attempts)
                     \/ pc \in {"gemini", "tokencost"}
        /\ \A i, j \in 1..Len(attempts) :
              attempts[i].adapter = attempts[j].adapter => i = j
        /\ \A i, j \in 1..Len(calls) :
              (calls[i].fn \in NativeCalls /\ calls[i].fn = calls[j].fn) => i = j
        /\ \A i \in 1..Len(attempts) :
              attempts[i].result = "pending" => i = Len(attempts)

\* the native Gemini adapter failed on a service error and the run went on to
\* the generic estimator, which printed a count
C13_Witness ==
    /\ Router /\ Done
    /\ Len(attempts) = 2
    /\ attempts[1] = Attempt("gemini", "Failure", "service_error")
    /\ Raised("genai.count_tokens")
    /\ attempts[2] = Attempt("tokencost", "Success", "none")
    /\ Len(stdout) = 1 /\ stderr = <<>>

----------------------------------------------------------------------------
(* C14 *)

IsGenericCall(c) == c.fn \in GenericCalls

\* the calls made inside count_with_tokencost, in order
GenericCallNames ==
    LET g == SelectSeq(calls, IsGenericCall)
    IN  [i \in 1..Len(g) |-> g[i].fn]

\* C14: inside count_with_tokencost the text-level call comes first; the
\* message-shaped call is made only after the text-level call has raised and
\* only for a model whose name starts with "claude"; each call shape is made
\* at most once; for any other model a text-level failure is re-raised
\* without a second call.
C14_TextLevelCallFirst ==
    Router =>
        /\ GenericCallNames \in {<<>>, <<"count_string_tokens">>,
                                 <<"count_string_tokens", "count_message_tokens">>}
        /\ Issued("count_message_tokens") =>
              (Raised("count_string_tokens") /\ ClaudeModel)
        /\ (Raised("count_string_tokens") /\ ~ClaudeModel) =>
              /\ ~Issued("count_message_tokens")
              /\ pc = "finally" => exc # None
              /\ pc = "done" => error_msg # None

\* a Claude model: the text-level call raised, the message-shaped call
\* followed and returned the count that was printed
C14_Witness ==
    /\ Router /\ Done /\ ArgsOk /\ ClaudeModel
    /\ GenericCallNames = <<"count_string_tokens", "count_message_tokens">>
    /\ Raised("count_string_tokens") /\ Returned("count_message_tokens")
    /\ origin = "count_message_tokens" /\ Len(stdout) = 1

----------------------------------------------------------------------------
(* C15 *)

\* the exception that reached main is a warning-only condition
WarningOnlyFailure ==
    Router /\ Done /\ error_msg # None /\ StartsWith(error_msg[1], <<WARNING>>)

\* C15: when the failure that reaches the router is a warning-only condition
\* the router prints the estimate len(text) // 4, exits 0 and leaves the error
\* channel empty, and the marker that makes the failure warning-only is also
\* the one that withholds captured library output: no captured line that
\* starts with the marker reaches the error channel.
C15_WarningOnlyIsSilent ==
    /\ WarningOnlyFailure =>
          /\ stdout = <<Len(text) \div 4>>
          /\ exit_status = 0
          /\ stderr = <<>>
    /\ (Router /\ Done) =>
          \A i \in 1..Len(captured_stderr) :
             StartsWith(captured_stderr[i], <<WARNING>>) =>
                 \A j \in 1..Len(stderr) : stderr[j] # captured_stderr[i]

----------------------------------------------------------------------------
(* C16 *)

\* the i-th call is a native counting call that returned a count
NativeReturned(i) == calls[i].fn \in NativeCalls /\ calls[i].status = "returned"

\* C16: a count returned by a native adapter, 0 included, ends the selection:
\* no other adapter is invoked after it, the generic estimator is not run and
\* the router prints that count with status 0; the generic estimator runs
\* only when no native adapter returned a count.
C16_ZeroCountIsSuccess ==
    Router =>
        \A i \in 1..Len(calls) :
           NativeReturned(i) =>
               /\ i = Len(calls)
               /\ attempts[Len(attempts)].adapter \in NativeAdapters
               /\ attempts[Len(attempts)].result = "Success"
               /\ ~Attempted("tokencost")
               /\ pc \notin {"string_tokens", "message_tokens", "finally", "except"}
               /\ Done => (stdout = calls[i].value /\ exit_status = 0 /\ stderr = <<>>)

\* the native Anthropic adapter returned 0 for a non-empty text and the
\* router printed 0 without running another adapter
C16_Witness ==
    /\ Router /\ Done /\ ArgsOk /\ text # <<>>
    /\ calls = <<Call("anthropic.count_tokens", "returned", Some(0))>>
    /\ attempts = <<Attempt("anthropic", "Success", "none")>>
    /\ stdout = <<0>> /\ exit_status = 0

----------------------------------------------------------------------------
(* C17 *)

\* the flag argument is "true" in some mix of upper and lower case
IsTrueAnyCase(flag) ==
    /\ Len(flag) = 4
    /\ flag[1] \in {"t", "T"} /\ flag[2] \in {"r", "R"}
    /\ flag[3] \in {"u", "U"} /\ flag[4] \in {"e", "E"}

FlagsOff == ~IsTrueAnyCase(argv[2]) /\ ~IsTrueAnyCase(argv[3])

\* C17: the router invokes a native adapter exactly when its flag argument is
\* "true" in any letter case and the model name has the family's prefix; with
\* both flags at any other value no native adapter is invoked, no credential
\* is read and the first adapter of the request is the generic estimator.
C17_FlagGatesNativeAdapter ==
    (Router /\ ArgsOk) =>
        /\ Attempted("anthropic") => (IsTrueAnyCase(argv[2]) /\ ClaudeModel)
        /\ Attempted("gemini") => (IsTrueAnyCase(argv[3]) /\ GeminiModel)
        /\ (InMainAfter(AfterAnthropic) /\ IsTrueAnyCase(argv[2]) /\ ClaudeModel) =>
              Attempted("anthropic")
        /\ (InMainAfter(AfterGemini) /\ IsTrueAnyCase(argv[3]) /\ GeminiModel) =>
              Attempted("gemini")
        /\ FlagsOff =>
              /\ api_key = None
              /\ \A i \in 1..Len(calls) : calls[i].fn \notin NativeCalls
              /\ attempts # <<>> => attempts[1].adapter = "tokencost"
              /\ InMainAfter({"string_tokens", "message_tokens", "finally",
                              "print", "except"}) => Attempted("tokencost")

\* a Claude model with the Anthropic flag "1": only the generic estimator ran
C17_Witness ==
    /\ Router /\ Done /\ ArgsOk /\ ClaudeModel
    /\ argv[2] = <<"1">> /\ argv[3] = <<"f", "a", "l", "s", "e">>
    /\ attempts = <<Attempt("tokencost", "Success", "none")>>
    /\ Len(stdout) = 1

----------------------------------------------------------------------------
(* C18 *)

\* the positions inside count_with_tokencost, from line 63 to the finally block
InsideTokencost == {"string_tokens", "message_tokens", "finally"}

\* C18: sys.stderr is the capture buffer only inside count_with_tokencost:
\* whether that function returns a count, returns the estimate or raises,
\* the real error channel is back when control is in the router again, so
\* the router's diagnostic for a terminal failure is the last line of the
\* real standard error and is not in the capture buffer.
C18_RedirectionIsTemporary ==
    Router =>
        /\ redirected => pc \in InsideTokencost
        /\ (Done /\ error_msg # None /\ ~StartsWith(error_msg[1], <<WARNING>>)) =>
              /\ stderr # <<>>
              /\ stderr[Len(stderr)] = <<ERROR_PREFIX>> \o error_msg[1]
              /\ \A i \in 1..Len(captured_stderr) :
                    captured_stderr[i][1] # ERROR_PREFIX

\* count_with_tokencost raised after the library wrote to the capture buffer,
\* and the router's diagnostic is on the real standard error
C18_Witness ==
    /\ Router /\ Done /\ exit_status = 1
    /\ error_msg = Some(<<OTHER_TEXT>>)
    /\ captured_stderr = <<<<WARNING, MARKER>>>>
    /\ stderr = <<<<ERROR_PREFIX, OTHER_TEXT>>>>
    /\ ~redirected

----------------------------------------------------------------------------
(* C11 *)

\* a second run has ended and was given exactly what the first run was given
SecondRunSameResponses ==
    Router /\ Done /\ first # None /\ Responses = first[1].responses

\* C11: two runs of the router with the same arguments, the same credentials
\* and the same adapter responses print the same integer, end with the same
\* exit status and write the same lines to standard error.
C11_SameInputsSameResult ==
    SecondRunSameResponses => Outcome = first[1].outcome

\* a second run in which, as in the first, the native adapter failed on a
\* service error and the generic estimator answered
C11_Witness ==
    /\ SecondRunSameResponses
    /\ Len(attempts) = 2 /\ attempts[1].result = "Failure"
    /\ Raised("anthropic.count_tokens")
    /\ Len(stdout) = 1 /\ exit_status = 0
    /\ stderr # <<>>

====
